---- MODULE Spec2Model ----
(***************************************************************************)
(* cbor_lite: the encoder (src/ser.rs) and the recursive-descent decoder   *)
(* (src/de.rs) of a small CBOR codec, as a state machine.                  *)
(*                                                                         *)
(* A run is one caller: it either hands a Value to to_bytes and feeds the  *)
(* bytes it gets to from_bytes, or it hands bytes of its own to            *)
(* from_bytes.  The recursion of the decoder is an explicit stack of the   *)
(* deserialize_array / deserialize_map activations that are waiting for a  *)
(* child; one step of the machine is one call of parse_value up to its     *)
(* next recursive call.                                                    *)
(*                                                                         *)
(* value.rs, bytes.rs, io.rs and constants.rs are not part of the sources  *)
(* at hand; what the two files use of them is modelled from the            *)
(* specification and marked so in the comments below.                      *)
(***************************************************************************)
EXTENDS Integers, Sequences, FiniteSets, TLC

VARIABLES
    value,      \* the Value given to to_bytes, or NoValue when none was
    output,     \* VecWriter.output: the bytes written so far
    encStatus,  \* "idle", "done" (to_bytes returned) or "fatal" (it panicked)
    input,      \* VecReader.input: the bytes given to from_bytes
    pos,        \* the reader's cursor: bytes consumed so far
    stack,      \* the pending deserialize_array / deserialize_map activations
    result,     \* the Value from_bytes returned, or NoValue
    status      \* "idle", "running", "done" or "fatal" (the call panicked)

vars == <<value, output, encStatus, input, pos, stack, result, status>>

-----------------------------------------------------------------------------
(* Bounds of the model.                                                    *)

\* Raw inputs: every byte sequence over RawBytes of at most this length.
MaxRawLen == 3
\* Arrays and insertion sequences of the encoder's values: at most this long.
MaxItems == 2
\* The long payloads, arrays and maps are 22 .. 23 + LongSpan long.
LongSpan == 4

-----------------------------------------------------------------------------
(* The Value model (value.rs; modelled from the specification, section 3). *)

NoValue == [type |-> "None"]
Null == [type |-> "Null"]
\* Value::Int (Int itself names the integers here)
IntVal(n) == [type |-> "Int", v |-> n]
Bytes(b) == [type |-> "Bytes", v |-> b]
String(s) == [type |-> "String", v |-> s]
Array(items) == [type |-> "Array", v |-> items]
\* A Map holds its pairs <<key, value>> in ascending key order (BTreeMap).
Map(pairs) == [type |-> "Map", v |-> pairs]

\* Value::as_string: Some(the text) for a String, None for everything else.
as_string(v) ==
    IF v.type = "String" THEN [some |-> TRUE, v |-> v.v]
    ELSE [some |-> FALSE, v |-> <<>>]

\* Ord for String: byte-wise lexicographic order.
RECURSIVE StrLess(_, _)
StrLess(a, b) ==
    IF b = <<>> THEN FALSE
    ELSE IF a = <<>> THEN TRUE
    ELSE IF Head(a) # Head(b) THEN Head(a) < Head(b)
    ELSE StrLess(Tail(a), Tail(b))

\* A buggy map: a new key goes to the end, whatever its order.
RECURSIVE insert_unordered(_, _, _)
insert_unordered(pairs, key, v) ==
    IF pairs = <<>> THEN << <<key, v>> >>
    ELSE IF Head(pairs)[1] = key THEN << <<key, v>> >> \o Tail(pairs)
    ELSE <<Head(pairs)>> \o insert_unordered(Tail(pairs), key, v)

\* BTreeMap::insert: replaces the value of a key already there, else puts the
\* pair at its place in ascending key order.
RECURSIVE insert(_, _, _)
insert(pairs, key, v) ==
    IF pairs = <<>> THEN << <<key, v>> >>
    ELSE IF Head(pairs)[1] = key THEN << <<key, v>> >> \o Tail(pairs)
    ELSE IF StrLess(key, Head(pairs)[1]) THEN << <<key, v>> >> \o pairs
    ELSE <<Head(pairs)>> \o insert(Tail(pairs), key, v)

-----------------------------------------------------------------------------
(* bytes.rs and constants.rs (modelled from the specification, 4.1).       *)

MAX_U8 == 255

\* n as u8
AsU8(n) == n % 256

\* bytes::concat: the major type in the top 3 bits, the rest in the low 5.
concat(major_type, additional_type) ==
    ((major_type * 32) % 256) + (additional_type % 32)

\* bytes::major_type and bytes::additional_type split a header byte.
major_type(header_byte) == header_byte \div 32
additional_type(header_byte) == header_byte % 32

\* Is bytes[i..] the start of well-formed UTF-8 up to the end of bytes?
RECURSIVE Utf8From(_, _)
Utf8From(bytes, i) ==
    LET n == Len(bytes)
        cont(j) == j <= n /\ bytes[j] >= 128 /\ bytes[j] <= 191
        b == bytes[i]
    IN  IF i > n THEN TRUE
        ELSE IF b < 128 THEN Utf8From(bytes, i + 1)
        ELSE IF b >= 194 /\ b <= 223 THEN cont(i + 1) /\ Utf8From(bytes, i + 2)
        ELSE IF b >= 224 /\ b <= 239
             THEN /\ cont(i + 1) /\ cont(i + 2)
                  /\ (b = 224 => bytes[i + 1] >= 160)
                  /\ (b = 237 => bytes[i + 1] <= 159)
                  /\ Utf8From(bytes, i + 3)
        ELSE IF b >= 240 /\ b <= 244
             THEN /\ cont(i + 1) /\ cont(i + 2) /\ cont(i + 3)
                  /\ (b = 240 => bytes[i + 1] >= 144)
                  /\ (b = 244 => bytes[i + 1] <= 143)
                  /\ Utf8From(bytes, i + 4)
        ELSE FALSE

\* bytes::to_string: the String of the bytes, or a panic when they are not
\* UTF-8.
to_string(bytes) ==
    IF Utf8From(bytes, 1) THEN [ok |-> TRUE, v |-> String(bytes)]
    ELSE [ok |-> FALSE, v |-> NoValue]

-----------------------------------------------------------------------------
(* The encoder, src/ser.rs.  A writer w is [ok, output]: ok is FALSE once  *)
(* the call has panicked, and nothing is written after that.               *)

NewWriter == [ok |-> TRUE, output |-> <<>>]

\* VecWriter::write_bytes (io.rs): append the block.
write_bytes(w, bytes) ==
    IF w.ok THEN [w EXCEPT !.output = w.output \o bytes] ELSE w

\* A buggy encoder: the two-byte form for every n up to MAX_U8.
encode_unsigned_wide(n, mt) ==
    IF n >= 0 /\ n <= MAX_U8
    THEN [ok |-> TRUE, bytes |-> <<concat(mt, 24), AsU8(n)>>]
    ELSE [ok |-> FALSE, bytes |-> <<>>]

\* VecSerializer::encode_unsigned: the header of n; unreachable!() past MAX_U8.
encode_unsigned(n, mt) ==
    IF n >= 0 /\ n <= 23
    THEN [ok |-> TRUE, bytes |-> <<concat(mt, AsU8(n))>>]
    ELSE IF n >= 24 /\ n <= MAX_U8
    THEN [ok |-> TRUE, bytes |-> <<concat(mt, 24), AsU8(n)>>]
    ELSE [ok |-> FALSE, bytes |-> <<>>]

\* Serializer::serialize_unsigned
serialize_unsigned(w, n, mt) ==
    LET e == encode_unsigned(n, mt)
    IN  IF ~w.ok THEN w
        ELSE IF e.ok THEN write_bytes(w, e.bytes)
        ELSE [w EXCEPT !.ok = FALSE]

\* A buggy serialize_bytes: writes its own length header before the bytes.
serialize_bytes_framed(w, bytes) ==
    write_bytes(serialize_unsigned(w, Len(bytes), 2), bytes)

\* Serializer::serialize_bytes: the bytes, and nothing else.
serialize_bytes(w, bytes) == write_bytes(w, bytes)

\* Serializer::serialize_string
serialize_string(w, string) ==
    write_bytes(serialize_unsigned(w, Len(string), 3), string)

\* Serializer::serialize_seq
serialize_seq(w, len) == serialize_unsigned(w, len, 4)

\* Serializer::serialize_map
serialize_map(w, len) == serialize_unsigned(w, len, 5)

\* Serializer::serialize_simple
serialize_simple(w, v) == serialize_unsigned(w, v, 7)

\* Serialize for Value (value.rs; modelled from the specification, 4.3).
RECURSIVE serialize(_, _)
RECURSIVE serialize_items(_, _)
RECURSIVE serialize_pairs(_, _)
serialize_items(w, items) ==
    IF items = <<>> THEN w
    ELSE LET w1 == serialize(w, Head(items))
         IN  IF w1.ok THEN serialize_items(w1, Tail(items)) ELSE w1
serialize_pairs(w, pairs) ==
    IF pairs = <<>> THEN w
    ELSE LET w1 == serialize_string(w, Head(pairs)[1])
             w2 == serialize(w1, Head(pairs)[2])
         IN  IF w2.ok THEN serialize_pairs(w2, Tail(pairs)) ELSE w2
serialize(w, v) ==
    CASE v.type = "Null" -> serialize_simple(w, 22)
      [] v.type = "Int" -> serialize_unsigned(w, v.v, 0)
      [] v.type = "Bytes" ->
            serialize_bytes(serialize_unsigned(w, Len(v.v), 2), v.v)
      [] v.type = "String" -> serialize_string(w, v.v)
      [] v.type = "Array" -> serialize_items(serialize_seq(w, Len(v.v)), v.v)
      [] v.type = "Map" -> serialize_pairs(serialize_map(w, Len(v.v)), v.v)

\* to_bytes: serialize into a fresh writer.
to_bytes(v) == serialize(NewWriter, v)

-----------------------------------------------------------------------------
(* The decoder, src/de.rs.  A decoder d is [input, pos, stack, result,     *)
(* status]; a frame of the stack is one activation of deserialize_array    *)
(* or deserialize_map waiting for parse_value to return.                   *)

NoKey == [some |-> FALSE, v |-> <<>>]

Frame(kind, len) ==
    [kind |-> kind, remaining |-> len, items |-> <<>>, key |-> NoKey]

\* A panic (unreachable!(), unwrap() on None, a read past the end): the
\* whole call is over and returns nothing.
Panic(d) == [d EXCEPT !.status = "fatal", !.result = NoValue]

\* VecReader::read_byte (io.rs): the next byte; a panic when none is left.
read_byte(d) ==
    IF d.pos < Len(d.input)
    THEN [ok |-> TRUE, byte |-> d.input[d.pos + 1],
          d |-> [d EXCEPT !.pos = d.pos + 1]]
    ELSE [ok |-> FALSE, byte |-> 0, d |-> d]

\* VecReader::read_n_bytes (io.rs): the next n bytes; a panic when fewer
\* are left.
read_n_bytes(d, n) ==
    IF d.pos + n <= Len(d.input)
    THEN [ok |-> TRUE, bytes |-> SubSeq(d.input, d.pos + 1, d.pos + n),
          d |-> [d EXCEPT !.pos = d.pos + n]]
    ELSE [ok |-> FALSE, bytes |-> <<>>, d |-> d]

\* A buggy conversion: little-endian.
u8_slice_to_u16_le(slice) ==
    ((((slice[2] % 256) * 256) % 65536) + (slice[1] % 256)) % 65536

\* u8_slice_to_u16: slice[0] << 8 | slice[1], in 16 bits.
u8_slice_to_u16(slice) ==
    ((((slice[1] % 256) * 256) % 65536) + (slice[2] % 256)) % 65536

\* u8_slice_to_u32: slice[0] << 24 | slice[1] << 16 | slice[2] << 8 | slice[3].
\* The inputs of the model keep slice[0] below 128, so that the value fits
\* the 32-bit signed integers of TLC; the shifts lose nothing in a u32.
u8_slice_to_u32(slice) ==
      (slice[1] % 256) * 16777216
    + (slice[2] % 256) * 65536
    + (slice[3] % 256) * 256
    + (slice[4] % 256)

\* A buggy return into deserialize_map: an item that is no String is taken
\* for the empty key.
RECURSIVE return_value_anykey(_, _)
return_value_anykey(d, v) ==
    IF d.stack = <<>>
    THEN [d EXCEPT !.result = v, !.status = "done"]
    ELSE
    LET n == Len(d.stack)
        f == d.stack[n]
        popped == [d EXCEPT !.stack = SubSeq(d.stack, 1, n - 1)]
    IN  IF f.kind = "array"
        THEN LET values == Append(f.items, v)
             IN  IF f.remaining = 1
                 THEN return_value_anykey(popped, Array(values))
                 ELSE [d EXCEPT !.stack[n].items = values,
                                !.stack[n].remaining = f.remaining - 1]
        ELSE IF ~f.key.some
        THEN [d EXCEPT !.stack[n].key = [some |-> TRUE, v |-> as_string(v).v]]
        ELSE LET map == insert(f.items, f.key.v, v)
             IN  IF f.remaining = 1
                 THEN return_value_anykey(popped, Map(map))
                 ELSE [d EXCEPT !.stack[n].items = map,
                                !.stack[n].key = NoKey,
                                !.stack[n].remaining = f.remaining - 1]

\* The return of parse_value into its caller: from_bytes when the stack is
\* empty, else the closure of deserialize_array (one more element) or the
\* loop of deserialize_map (a key, which must be a String, or the value of
\* the pending key).  A caller that has all its children returns in turn.
RECURSIVE return_value(_, _)
return_value(d, v) ==
    IF d.stack = <<>>
    THEN [d EXCEPT !.result = v, !.status = "done"]
    ELSE
    LET n == Len(d.stack)
        f == d.stack[n]
        popped == [d EXCEPT !.stack = SubSeq(d.stack, 1, n - 1)]
    IN  IF f.kind = "array"
        THEN LET values == Append(f.items, v)
             IN  IF f.remaining = 1
                 THEN return_value(popped, Array(values))
                 ELSE [d EXCEPT !.stack[n].items = values,
                                !.stack[n].remaining = f.remaining - 1]
        ELSE IF ~f.key.some
        THEN LET key == as_string(v)
             IN  IF key.some
                 THEN [d EXCEPT !.stack[n].key = key]
                 ELSE Panic(d)
        ELSE LET map == insert(f.items, f.key.v, v)
             IN  IF f.remaining = 1
                 THEN return_value(popped, Map(map))
                 ELSE [d EXCEPT !.stack[n].items = map,
                                !.stack[n].key = NoKey,
                                !.stack[n].remaining = f.remaining - 1]

\* Deserializer::read_u8
read_u8(d) ==
    LET r == read_byte(d)
    IN  IF r.ok THEN return_value(r.d, IntVal(r.byte)) ELSE Panic(d)

\* Deserializer::read_u16
read_u16(d) ==
    LET r == read_n_bytes(d, 2)
    IN  IF r.ok THEN return_value(r.d, IntVal(u8_slice_to_u16(r.bytes)))
        ELSE Panic(d)

\* Deserializer::read_u32
read_u32(d) ==
    LET r == read_n_bytes(d, 4)
    IN  IF r.ok THEN return_value(r.d, IntVal(u8_slice_to_u32(r.bytes)))
        ELSE Panic(d)

\* Deserializer::read_additional_type.  parse_value never calls it.
read_additional_type(d, at) ==
    IF at >= 0 /\ at <= 23 THEN [ok |-> TRUE, n |-> at, d |-> d]
    ELSE IF at = 24
    THEN LET r == read_byte(d) IN [ok |-> r.ok, n |-> r.byte, d |-> r.d]
    ELSE [ok |-> FALSE, n |-> 0, d |-> d]

\* Deserializer::deserialize_int
deserialize_int(d, at) ==
    IF at >= 0 /\ at <= 23 THEN return_value(d, IntVal(at))
    ELSE IF at = 24 THEN read_u8(d)
    ELSE IF at = 25 THEN read_u16(d)
    ELSE IF at = 26 THEN read_u32(d)
    ELSE Panic(d)

\* A buggy deserialize_bytes: all the bytes that are left, when they are
\* at least len.
deserialize_bytes_rest(d, len) ==
    LET r == read_n_bytes(d, Len(d.input) - d.pos)
    IN  IF r.ok /\ Len(r.bytes) >= len THEN return_value(r.d, Bytes(r.bytes))
        ELSE Panic(d)

\* Deserializer::deserialize_bytes
deserialize_bytes(d, len) ==
    LET r == read_n_bytes(d, len)
    IN  IF r.ok THEN return_value(r.d, Bytes(r.bytes)) ELSE Panic(d)

\* Deserializer::deserialize_string
deserialize_string(d, len) ==
    LET r == read_n_bytes(d, len)
        s == to_string(r.bytes)
    IN  IF ~r.ok THEN Panic(d)
        ELSE IF s.ok THEN return_value(r.d, s.v)
        ELSE Panic(r.d)

\* Deserializer::deserialize_array: len calls of parse_value, then the Array.
deserialize_array(d, len) ==
    IF len = 0 THEN return_value(d, Array(<<>>))
    ELSE [d EXCEPT !.stack = Append(d.stack, Frame("array", len))]

\* Deserializer::deserialize_map: len times a key and a value, then the Map.
deserialize_map(d, len) ==
    IF len = 0 THEN return_value(d, Map(<<>>))
    ELSE [d EXCEPT !.stack = Append(d.stack, Frame("map", len))]

\* Deserializer::deserialize_simple
deserialize_simple(d, v) ==
    IF v = 22 THEN return_value(d, Null) ELSE Panic(d)

\* A buggy parse_value: a major type it does not know is neither consumed
\* nor fatal, and is read again.
parse_value_retry(d) ==
    LET r == read_byte(d)
        mt == major_type(r.byte)
        at == additional_type(r.byte)
    IN  IF ~r.ok THEN Panic(d)
        ELSE CASE mt = 0 -> deserialize_int(r.d, at)
               [] mt = 2 -> deserialize_bytes(r.d, at)
               [] mt = 3 -> deserialize_string(r.d, at)
               [] mt = 4 -> deserialize_array(r.d, at)
               [] mt = 5 -> deserialize_map(r.d, at)
               [] mt = 7 -> deserialize_simple(r.d, at)
               [] OTHER -> d

\* Deserializer::parse_value, up to its next recursive call: read the header
\* and dispatch on the major type, with the additional type as it stands.
parse_value(d) ==
    LET r == read_byte(d)
        mt == major_type(r.byte)
        at == additional_type(r.byte)
    IN  IF ~r.ok THEN Panic(d)
        ELSE CASE mt = 0 -> deserialize_int(r.d, at)
               [] mt = 2 -> deserialize_bytes(r.d, at)
               [] mt = 3 -> deserialize_string(r.d, at)
               [] mt = 4 -> deserialize_array(r.d, at)
               [] mt = 5 -> deserialize_map(r.d, at)
               [] mt = 7 -> deserialize_simple(r.d, at)
               [] OTHER -> Panic(r.d)

\* Deserializer::from_vec_reader on VecReader{input: bytes}
NewDeserializer(bytes) ==
    [input |-> bytes, pos |-> 0, stack |-> <<>>, result |-> NoValue,
     status |-> "running"]

\* parse_value with all its recursive calls.
RECURSIVE run(_)
run(d) == IF d.status = "running" THEN run(parse_value(d)) ELSE d

\* from_bytes, as a function of the bytes.
from_bytes(bytes) == run(NewDeserializer(bytes))

-----------------------------------------------------------------------------
(* What the caller hands in.                                               *)

Fill(x, n) == [i \in 1..n |-> x]
SeqsUpTo(S, n) == UNION {[1..k -> S] : k \in 0..n}

\* Lengths on both sides of 23 | 24, where the header grows by a byte, and
\* up to 27 and beyond, the additional types no header may carry.
LongLens == 22..(23 + LongSpan)

\* Payloads: "", "a", "b", "aa", e-acute in UTF-8, and long runs of "a".
Texts == {<<>>, <<97>>, <<98>>, <<97, 97>>, <<195, 169>>}
          \cup {Fill(97, n) : n \in LongLens}
Blobs == {<<>>, <<0>>, <<255>>, <<24, 255>>}
          \cup {Fill(0, n) : n \in LongLens} \cup {Fill(0, MAX_U8 + 1)}
Ints == {0, 1, 23, 24, 25, 255, 256, 65536}

Leaves == {Null} \cup {IntVal(n) : n \in Ints}
           \cup {Bytes(b) : b \in Blobs} \cup {String(t) : t \in Texts}

\* The children of the composite values.
Items == {Null, IntVal(1), IntVal(24), IntVal(256), Bytes(<<0>>),
          String(<<97>>)}
Keys == {<<>>, <<97>>, <<98>>, <<97, 97>>}
MapItems == {Null, IntVal(1), String(<<98>>)}

\* The caller builds a map by inserting pairs one after the other, as the
\* tests do: BTreeMap::new(), then insert for each pair.
RECURSIVE from_inserts(_, _)
from_inserts(map, ins) ==
    IF ins = <<>> THEN map
    ELSE LET n == Len(ins)
         IN  insert(from_inserts(map, SubSeq(ins, 1, n - 1)),
                    ins[n][1], ins[n][2])

InsertSeqs == SeqsUpTo(Keys \X MapItems, MaxItems)

\* The pairs of a long map, the greatest key first: two-letter keys "aa",
\* "ab", ..., "af", "ba", ...
LongInserts(n) ==
    [i \in 1..n |-> << <<97 + ((n - i) \div 6), 97 + ((n - i) % 6)>>, Null>>]

Arrays == {Array(s) : s \in SeqsUpTo(Items, MaxItems)}
           \cup {Array(Fill(x, n)) :
                    x \in {IntVal(1), String(<<97>>)}, n \in LongLens}
Maps == {Map(from_inserts(<<>>, ins)) : ins \in InsertSeqs}
         \cup {Map(from_inserts(<<>>, LongInserts(n))) : n \in LongLens}

\* Composite values of composite values.
Inner == {Array(<<>>), Array(<<Null>>), Array(<<IntVal(1), IntVal(24)>>),
          Map(<<>>), Map(<< <<(<<97>>), IntVal(1)>> >>)}
Nested == {Array(s) : s \in SeqsUpTo(Inner, MaxItems) \ {<<>>}}
           \cup {Map(from_inserts(<<>>, <<p>>)) : p \in Keys \X Inner}
           \cup {Array(<<Array(<<x>>)>>) : x \in Inner}

Values == Leaves \cup Arrays \cup Maps \cup Nested

\* Raw bytes: headers of every major type the decoder knows and of major
\* type 1 (0x20), additional types 24, 27 and 31, and bytes that are not
\* UTF-8.
RawBytes == {0, 24, 27, 32, 65, 88, 96, 97, 129, 130, 161, 246, 255}

\* An integer header with its 2 or 4 bytes.
WideInts == {<<25>> \o s : s \in [1..2 -> {0, 1, 255}]}
             \cup {<<26>> \o s : s \in [1..4 -> {0, 1, 127}]}

\* A header that carries a count it does not spell out in full, or an
\* additional type past 26, and what follows: bytes, text, integers, nulls.
LongHeaders == {87, 88, 91, 119, 120, 123, 151, 152, 155, 184, 192}
LongInputs == {<<h>> \o Fill(x, n) :
                  h \in LongHeaders, x \in {0, 97, 246}, n \in LongLens}

\* Maps whose keys come in any order on the wire, twice the same key too.
WireMaps == {<<162, 97, k1, v1, 97, k2, v2>> :
                k1 \in {97, 98}, k2 \in {97, 98}, v1 \in {0, 246},
                v2 \in {0, 246}}

\* Maps, alone or in an array, with an item that is no text where a key is
\* due: the first key, or the second one after the pair "" -> 0.
KeyPrefixes == {<<161>>, <<162>>, <<129, 161>>, <<162, 96, 0>>}
NonTextItems == {Null, IntVal(0), IntVal(24), Bytes(<<>>), Bytes(<<97>>),
                 Array(<<>>), Array(<<String(<<97>>)>>), Map(<<>>),
                 Map(<< <<(<<>>), Null>> >>)}
MapKeyInputs == {p \o to_bytes(k).output \o t :
                    p \in KeyPrefixes, k \in NonTextItems,
                    t \in {<<>>, <<0>>, <<96, 0>>}}

\* Inputs the caller has ready-made; it also assembles every sequence of at
\* most MaxRawLen of the RawBytes, byte after byte (PushByte).
RawInputs == WideInts \cup LongInputs \cup WireMaps \cup MapKeyInputs

-----------------------------------------------------------------------------
(* The state machine.                                                      *)

Init ==
    /\ value = NoValue
    /\ output = <<>>
    /\ encStatus = "idle"
    /\ input = <<>>
    /\ pos = 0
    /\ stack = <<>>
    /\ result = NoValue
    /\ status = "idle"

\* to_bytes(v): the bytes, or a panic with what was written before it.
ToBytes ==
    /\ encStatus = "idle"
    /\ status = "idle"
    /\ input = <<>>
    /\ \E v \in Values :
          LET w == to_bytes(v)
          IN  /\ value' = v
              /\ output' = w.output
              /\ encStatus' = IF w.ok THEN "done" ELSE "fatal"
    /\ UNCHANGED <<input, pos, stack, result, status>>

\* The caller puts one more byte into the Vec<u8> it will have decoded.
PushByte ==
    /\ status = "idle"
    /\ encStatus = "idle"
    /\ Len(input) < MaxRawLen
    /\ \E b \in RawBytes : input' = Append(input, b)
    /\ UNCHANGED <<value, output, encStatus, pos, stack, result, status>>

\* from_bytes(bytes): a Deserializer over the bytes: the ones to_bytes
\* returned, the ones the caller assembled, or ready-made ones.
FromBytes ==
    /\ status = "idle"
    /\ \E bytes \in (IF encStatus = "done" THEN {output}
                     ELSE IF encStatus = "fatal" THEN {}
                     ELSE IF input = <<>> THEN RawInputs \cup {<<>>}
                     ELSE {input}) :
          LET d == NewDeserializer(bytes)
          IN  /\ input' = d.input
              /\ pos' = d.pos
              /\ stack' = d.stack
              /\ result' = d.result
              /\ status' = d.status
    /\ UNCHANGED <<value, output, encStatus>>

Dec ==
    [input |-> input, pos |-> pos, stack |-> stack, result |-> result,
     status |-> status]

\* One call of parse_value, up to its next recursive call or its return.
Step ==
    /\ status = "running"
    /\ LET d == parse_value(Dec)
       IN  /\ pos' = d.pos
           /\ stack' = d.stack
           /\ result' = d.result
           /\ status' = d.status
    /\ UNCHANGED <<value, output, encStatus, input>>

HeaderIs(types) ==
    /\ pos < Len(input)
    /\ major_type(input[pos + 1]) \in types

DeserializeInt == HeaderIs({0}) /\ Step
DeserializeBytes == HeaderIs({2}) /\ Step
DeserializeString == HeaderIs({3}) /\ Step
DeserializeArray == HeaderIs({4}) /\ Step
DeserializeMap == HeaderIs({5}) /\ Step
DeserializeSimple == HeaderIs({7}) /\ Step
\* The unreachable!() arm of parse_value: major types 1 and 6.
Unreachable == HeaderIs({1, 6}) /\ Step
\* read_byte with no byte left.
ReadPastEnd == pos >= Len(input) /\ Step

Next ==
    \/ ToBytes
    \/ PushByte
    \/ FromBytes
    \/ DeserializeInt
    \/ DeserializeBytes
    \/ DeserializeString
    \/ DeserializeArray
    \/ DeserializeMap
    \/ DeserializeSimple
    \/ Unreachable
    \/ ReadPastEnd

Spec == Init /\ [][Next]_vars

\* Encoding and decoding are synchronous, single-threaded computations: a
\* call that can take a step takes it.
FairSpec == Spec /\ WF_vars(Next)

-----------------------------------------------------------------------------
(* The vocabulary of the claims: the wire format as the specification      *)
(* words it, written without the operators of the model.                   *)

IsPrefix(p, s) == Len(p) <= Len(s) /\ SubSeq(s, 1, Len(p)) = p

\* The bytes that follow a header with this additional type: 0, 1, 2 or 4.
Width(at) ==
    IF at <= 23 THEN 0 ELSE IF at = 24 THEN 1 ELSE IF at = 25 THEN 2 ELSE 4

\* An unsigned integer, most significant byte first.
RECURSIVE BigEndian(_)
BigEndian(bytes) ==
    IF bytes = <<>> THEN 0
    ELSE BigEndian(SubSeq(bytes, 1, Len(bytes) - 1)) * 256 + bytes[Len(bytes)]

\* The count or value of the header at bytes[h], by the rule of section 4.1.
Resolved(bytes, h) ==
    LET at == bytes[h] % 32
    IN  IF at <= 23 THEN at
        ELSE BigEndian(SubSeq(bytes, h + 1, h + Width(at)))

\* The minimal header of n under major type mt.
MinimalHeader(n, mt) ==
    IF n <= 23 THEN <<32 * mt + n>> ELSE <<32 * mt + 24, n>>

MajorOf(v) ==
    CASE v.type = "Int" -> 0
      [] v.type = "Bytes" -> 2
      [] v.type = "String" -> 3
      [] v.type = "Array" -> 4
      [] v.type = "Map" -> 5
      [] v.type = "Null" -> 7

\* The count or value the header of v carries.
CountOf(v) ==
    CASE v.type = "Int" -> v.v
      [] v.type = "Null" -> 22
      [] OTHER -> Len(v.v)

\* The values the round trip is promised for.
RECURSIVE Representable(_)
Representable(v) ==
    CASE v.type = "Null" -> TRUE
      [] v.type = "Int" -> v.v >= 0 /\ v.v <= 255
      [] v.type = "Bytes" -> Len(v.v) <= 255
      [] v.type = "String" -> Len(v.v) <= 255 /\ Utf8From(v.v, 1)
      [] v.type = "Array" ->
            /\ Len(v.v) <= 255
            /\ \A i \in DOMAIN v.v : Representable(v.v[i])
      [] v.type = "Map" ->
            /\ Len(v.v) <= 255
            /\ \A i \in DOMAIN v.v :
                  /\ Representable(String(v.v[i][1]))
                  /\ Representable(v.v[i][2])
      [] OTHER -> FALSE

\* The keys of a set of pairs in ascending order.
RECURSIVE Ascending(_)
Ascending(keys) ==
    IF keys = {} THEN <<>>
    ELSE LET least == CHOOSE k \in keys :
                          \A j \in keys : j = k \/ StrLess(k, j)
         IN  <<least>> \o Ascending(keys \ {least})

PairSet(pairs) == {pairs[i] : i \in DOMAIN pairs}

\* The wire form of the pairs, key by key in the given order.
RECURSIVE PairBytes(_, _)
PairBytes(keys, pairs) ==
    IF keys = <<>> THEN <<>>
    ELSE LET p == CHOOSE q \in pairs : q[1] = Head(keys)
         IN  to_bytes(String(p[1])).output \o to_bytes(p[2]).output
                 \o PairBytes(Tail(keys), pairs)

\* What may follow an item in the input.
Trails == {<<>>, <<0>>, <<255>>, <<246, 24>>, <<130, 97, 161>>}

-----------------------------------------------------------------------------
(* The claims.                                                             *)

\* C1: for every representable Value v (Null, Int in 0..=255, Bytes and
\* UTF-8 Strings of at most 255 bytes, Arrays and Maps of at most 255
\* representable children), to_bytes(v) returns, from_bytes of its bytes
\* returns, and what it returns is v.
C1_RoundTrip ==
    (value # NoValue /\ Representable(value)) =>
        /\ encStatus # "fatal"
        /\ status # "fatal"
        /\ (status = "done" => result = value)

\* C2: on a header of major type 2, 3, 4 or 5 the decoder first resolves
\* the additional type to a count (0-23: itself; 24, 25, 26: the next 1, 2,
\* 4 bytes, big-endian) and then reads that many payload bytes (2, 3) or
\* expects that many elements or pairs (4, 5).
C2_ResolvesCount ==
    [][(/\ status = "running"
        /\ HeaderIs({2, 3, 4, 5})
        /\ additional_type(input[pos + 1]) <= 26
        /\ pos + 1 + Width(additional_type(input[pos + 1])) <= Len(input))
       =>
       LET mt == major_type(input[pos + 1])
           n == Resolved(input, pos + 1)
           p == pos + 1 + Width(additional_type(input[pos + 1]))
       IN  IF mt \in {2, 3}
           THEN IF p + n <= Len(input)
                THEN pos' = p + n
                ELSE status' = "fatal"
           ELSE /\ pos' = p
                /\ n > 0 =>
                      /\ Len(stack') = Len(stack) + 1
                      /\ stack'[Len(stack')].remaining = n
      ]_vars

\* C3: a header of major type 0 decodes to Int(n), n the additional type
\* itself for 0-23 and else the next 1, 2 or 4 bytes (additional type 24,
\* 25, 26) read big-endian; exactly those bytes are consumed.  Stated for
\* the item at the top level and for the only element of an array.
C3_IntWidth ==
    /\ (status = "done" /\ Len(input) >= 1 /\ major_type(input[1]) = 0) =>
          /\ additional_type(input[1]) <= 26
          /\ result = IntVal(Resolved(input, 1))
          /\ pos = 1 + Width(additional_type(input[1]))
    /\ (status = "done" /\ Len(input) >= 2 /\ input[1] = 129
           /\ major_type(input[2]) = 0) =>
          /\ additional_type(input[2]) <= 26
          /\ result = Array(<<IntVal(Resolved(input, 2))>>)
          /\ pos = 2 + Width(additional_type(input[2]))

\* C3's case: a 4-byte integer has been decoded.
C3_Witness ==
    /\ status = "done"
    /\ input = <<26, 1, 0, 0, 0>>
    /\ result = IntVal(16777216)
    /\ pos = 5

\* C4: the header to_bytes writes for a count or value n under major type
\* mt is the minimal one: one byte mt|n for n in 0..=23, the two bytes
\* mt|24, n for n in 24..=255; for n > 255 the call fails and has written
\* nothing.  An Int or Null is its header; a Bytes or String is its header
\* and its payload.
C4_MinimalHeader ==
    (encStatus # "idle") =>
        LET n == CountOf(value)
            mt == MajorOf(value)
        IN  IF n > 255
            THEN encStatus = "fatal" /\ output = <<>>
            ELSE /\ IsPrefix(MinimalHeader(n, mt), output)
                 /\ value.type \in {"Int", "Null"} =>
                       encStatus = "done" /\ output = MinimalHeader(n, mt)
                 /\ value.type \in {"Bytes", "String"} =>
                       /\ encStatus = "done"
                       /\ output = MinimalHeader(n, mt) \o value.v

\* C4's case: a text of 24 bytes, the first length that takes two bytes.
C4_Witness ==
    /\ encStatus = "done"
    /\ value.type = "String"
    /\ Len(value.v) = 24
    /\ Len(output) = 26

\* C5: a Map is encoded as the major-type-5 header of its pair count and
\* then its pairs in ascending key order, each key as a text string followed
\* by its value; so the same pairs inserted in any other order encode to
\* the same bytes.
C5_MapCanonical ==
    (encStatus = "done" /\ value.type = "Map") =>
        LET pairs == PairSet(value.v)
            keys == {q[1] : q \in pairs}
        IN  /\ Cardinality(keys) = Len(value.v)
            /\ output = MinimalHeader(Len(value.v), 5)
                            \o PairBytes(Ascending(keys), pairs)
            /\ \A ins \in InsertSeqs :
                  (PairSet(ins) = pairs /\ Len(ins) = Len(value.v)) =>
                      to_bytes(Map(from_inserts(<<>>, ins))).output = output

\* C5's case: the map {"a": 1, "b": null}, which an insertion of "b"
\* before "a" builds too, has been encoded.
C5_Witness ==
    /\ encStatus = "done"
    /\ value = Map(from_inserts(<<>>, << <<(<<98>>), Null>>,
                                         <<(<<97>>), IntVal(1)>> >>))
    /\ output = <<162, 97, 97, 1, 97, 98, 246>>

\* C6: whenever the decoder reads a header whose major type is 1 or 6, or
\* whose additional type is in 27..=31, the call aborts and returns no
\* Value.  Stated for the two headers a call that returns has read for
\* sure: the first one, and after the header of a one-element array the
\* next one.
C6_MalformedHeaderFatal ==
    LET Malformed(b) == (b \div 32) \in {1, 6} \/ (b % 32) >= 27
    IN  (status = "done") =>
            /\ ~Malformed(input[1])
            /\ (input[1] = 129) => ~Malformed(input[2])

\* C7: when the item where a map's key is due decodes to a Value that is
\* no String (Null, Int, Bytes, Array, Map), the whole call aborts: it never
\* returns, neither the map nor a value around it, and it is fatal as soon
\* as that item has been read.
C7_InvalidMapKeyFatal ==
    \A p \in KeyPrefixes, k \in NonTextItems :
        LET head == p \o to_bytes(k).output
        IN  (status # "idle" /\ IsPrefix(head, input)) =>
                /\ status # "done"
                /\ result = NoValue
                /\ pos >= Len(head) => status = "fatal"

\* C7's case: the key of a map in an array was an array, and the call died
\* right after it.
C7_Witness ==
    /\ status = "fatal"
    /\ IsPrefix(<<129, 161, 129, 97, 97>>, input)
    /\ pos = 5
    /\ result = NoValue

\* C8: Bytes(b) is encoded as the header of len(b) under major type 2 and
\* then b as it is: header length plus len(b) bytes, the first of major
\* type 2.
C8_BytesVerbatim ==
    (encStatus = "done" /\ value.type = "Bytes") =>
        LET h == MinimalHeader(Len(value.v), 2)
        IN  /\ output = h \o value.v
            /\ Len(output) = Len(h) + Len(value.v)
            /\ output[1] \div 32 = 2

\* C8's case: 24 bytes, with a two-byte header.
C8_Witness ==
    /\ encStatus = "done"
    /\ value = Bytes(Fill(0, 24))
    /\ Len(output) = 26

C10_Terminates ==
    /\ [][(status = "running") =>
              /\ pos' >= pos
              /\ pos' > pos \/ status' = "fatal"]_vars
    /\ (status = "running") ~> (status \in {"done", "fatal"})

\* C10's case: the input ended inside an array in an array.
C10_Witness ==
    /\ status = "fatal"
    /\ Len(stack) >= 2
    /\ stack[1].kind = "array"
    /\ pos = Len(input)

=============================================================================
